---- MODULE Spec2Model ----
(***************************************************************************)
(* Crash game backend: the round lifecycle engine (GameEngineService), the *)
(* game-loop timers of GameWebSocket.startGameLoop and the bet / cash-out  *)
(* requests.  Every `await` of the source is a point where the other       *)
(* handlers of the event loop may run; the code between two awaits is one  *)
(* atomic action; an await on an already settled promise resumes as a      *)
(* microtask, before any other callback.  Store and price latencies are    *)
(* unbounded, so the time between two arming points is free; of two armed  *)
(* timers the one armed first fires first unless its delay is longer.  A   *)
(* write to the round store takes effect when save() is called, a query    *)
(* reads the store when its answer arrives; the runs over a store left by  *)
(* an earlier process (SpecRestart) separate the read from the delivery of *)
(* its answer.  The 30-minute cleanup of the sessions map runs in          *)
(* SpecSessions, a save() that throws in SpecFaults, two players in        *)
(* SpecPair; in the other runs sessions stay in the map and saves resolve. *)
(* Money is counted in whole dollars, multipliers and crash points in      *)
(* hundredths, crypto amounts in thousandths of a coin.  The SHA-256       *)
(* digest of the crash-point generator is a digest of reduced width.       *)
(***************************************************************************)
EXTENDS Integers, Sequences, FiniteSets, TLC

\* ---------------------------------------------------------------- bounds
MaxRounds == 2          \* rounds created in a run from construction
MaxRequests == 2        \* client requests in a run from construction
MaxSteadyRounds == 1    \* rounds created in a run that starts after start-up
MaxSteadyRequests == 3  \* client requests in a run that starts after start-up
MaxElapsed == 2         \* clock positions of the multiplier curve after start
MaxStartTimers == 1     \* pending start-round timeouts
MaxGuardedTimers == 1   \* pending crash-display timeouts of the crash poll
MaxResetTimers == 1     \* pending 2 s reset timeouts of crashGame
MaxCrashSaves == 1      \* crashGame invocations waiting for their save
MaxCrashes == 2         \* crashGame invocations counted per round
MaxEntryRounds == 1      \* rounds created in a run that draws unchecked amounts
MaxEntryRequests == 2    \* client requests in a run that draws unchecked amounts
MaxFairCounter == 12    \* counter values at which the generator is observed
MaxFairRounds == 1      \* rounds created in a run that observes the generator
MaxStored == 2          \* rounds an earlier run has left in the store
MaxRestartRounds == 2   \* rounds created in a run that starts over such a store
MaxWriteFailures == 1   \* save() calls that throw
MaxFaultRounds == 2     \* rounds created in a run with a failing save()
MaxPairRounds == 1      \* rounds created in a run with two players
MaxPairRequests == 4    \* requests in a run with two players
MaxNow == 3             \* firings of the 30-minute cleanup interval
MaxSessionRounds == 1   \* rounds created in a run with session cleanup
MaxSessionRequests == 2 \* bet / cash-out requests in a run with session cleanup

\* ---------------------------------------------------------------- inputs
SessionIds == {"s1"}
Amounts == {600}
\* the usdAmount values a client can send: also zero and a negative amount
AnyAmounts == Amounts \cup {0, -600}
Prices == {2}
\* crypto.randomBytes(32).toString('hex'): the seeds drawn by the engine runs,
\* as strings of hex characters (a character is its value 0..15; the decimal
\* digits '0'..'9' are the characters 0..9)
Seeds == {<<3, 2>>}
\* every seed of the reduced length
SeedLen == 2
AllSeeds == [1..SeedLen -> 0..15]
RequestTasks == {"r1", "r2"}
TimerTasks == {"startup", "first", "tick", "start"}

InitialBalance == 1000

\* session.currentBet = null is the record with roundId = 0
NoBet == [roundId |-> 0, usdAmount |-> 0, cryptoAmount |-> 0, priceAtBet |-> 0,
          isActive |-> FALSE]
\* a sessionId that is not a key of the sessions map has exists = FALSE
NoSession == [exists |-> FALSE, playerName |-> "", balance |-> 0, totalBets |-> 0,
              totalWins |-> 0, totalWinnings |-> 0, currentBet |-> NoBet,
              joinedAt |-> 0]
\* the object getSession puts into the map, before its name and joinedAt
NewSession == [exists |-> TRUE, playerName |-> "", balance |-> InitialBalance,
               totalBets |-> 0, totalWins |-> 0, totalWinnings |-> 0,
               currentBet |-> NoBet, joinedAt |-> 0]
\* a playerName argument that is omitted, null or '' (all falsy)
NoName == ""
\* `Player_${sessionId.slice(-6)}`: every SessionId is shorter than 7 characters
DefaultName(sessionId) == "Player_" \o sessionId

\* Math.pow(Math.E, 0.08 * elapsed) in hundredths at the clock positions
\* elapsed = 0, 5, 10, 15, ... seconds
MultTable == <<100, 149, 222, 332, 495, 738>>
\* a curve that falls with the clock position
MultFalling(e) == MultTable[MaxElapsed + 1 - e]
MultAt(e) == MultTable[e + 1]

\* one handler invocation: where it waits (pc), where initialize and
\* createNewRound return to, and its locals
\* what a successful placeBet / cashOut returns (0 where it returns no such field)
NoReturn == [multiplier |-> 0, winAmount |-> 0, profit |-> 0, newBalance |-> 0]

\* joined is the joinedAt of the session object the handler holds in `session`,
\* found the answer of the store to the handler's query once the store has
\* run it (a roundNumber for findOne().sort(), a position for findOne({status}))
IdleTask == [pc |-> "idle", iret |-> "", cret |-> "", sid |-> "", amt |-> 0,
             crypto |-> 0, idx |-> 0, bround |-> 0, usd |-> 0, res |-> "none",
             ret |-> NoReturn, joined |-> 0, found |-> 0]
DoneTask == [IdleTask EXCEPT !.pc = "done"]

VARIABLES
    gameState, currentRound, roundCounter, multiplier, multiplierInterval,
    elapsed, initialized, sessions,
    rounds, store,
    task, requestsLeft, roundsLeft,
    timers, intervals, nextHandle, crashSaves, alive,
    now, referenced, writeFailures

vars == <<gameState, currentRound, roundCounter, multiplier, multiplierInterval,
          elapsed, initialized, sessions, rounds, store, task, requestsLeft,
          roundsLeft, timers, intervals, nextHandle, crashSaves, alive,
          now, referenced, writeFailures>>

engineVars == <<gameState, currentRound, roundCounter, multiplier,
                multiplierInterval, elapsed, initialized>>
timerVars == <<timers, intervals, nextHandle, crashSaves>>
budgetVars == <<requestsLeft, roundsLeft>>
\* Date.now() counted in firings of the 30-minute cleanup interval, and for
\* every sessionId the value of the clock at its last getSession (a history
\* of the run: the session object has no such field)
clockVars == <<now, referenced>>
\* the number of save() calls that have thrown
faultVars == <<writeFailures>>

Tasks == DOMAIN task
Slots == RequestTasks \cap DOMAIN task

\* positions right after an await whose promise is already settled when the
\* handler reaches it or is settled by the handler's own callee returning
\* (`await this.initialize()` once initialized, the return of initialize and
\* of createNewRound to their caller): the continuation is a microtask, which
\* the event loop runs before any timer, I/O callback or new request
MicrotaskPcs == {"cn_body", "pb_check", "pb_session", "tick_rest"}
Resuming == {t \in DOMAIN task : task[t].pc \in MicrotaskPcs}

\* the event loop may run a callback of handler t / a timer callback
Turn(t) == alive /\ Resuming \subseteq {t}
TimerTurn == alive /\ Resuming = {}

\* the state after construction (GameEngineService constructor, timers of
\* startGameLoop armed, server.listen callback about to run); one request
\* handler runs at a time
Init ==
    /\ gameState = "waiting"
    /\ currentRound = 0
    /\ roundCounter = 1
    /\ multiplier = 100
    /\ multiplierInterval = 0
    /\ elapsed = 0
    /\ initialized = FALSE
    /\ sessions = [s \in SessionIds |-> NoSession]
    /\ rounds = <<>>
    /\ store = <<>>
    /\ task = [t \in TimerTasks \cup {"r1"} |->
                  IF t = "startup" THEN [IdleTask EXCEPT !.pc = "boot"] ELSE IdleTask]
    /\ requestsLeft = MaxRequests
    /\ roundsLeft = MaxRounds
    /\ timers = <<"first", "tick">>
    /\ intervals = {}
    /\ nextHandle = 1
    /\ crashSaves = 0
    /\ alive = TRUE
    /\ now = 0
    /\ referenced = [s \in SessionIds |-> 0]
    /\ writeFailures = 0

\* ------------------------------------------------------------- helpers
\* the engine call has returned or thrown r; the handler still has to answer
Finish(r) == [IdleTask EXCEPT !.pc = "reply", !.res = r]

\* the engine call made for session s has thrown r / has returned ret
Throw(s, r) == [Finish(r) EXCEPT !.sid = s]
Return(s, r, ret) == [Finish(r) EXCEPT !.sid = s, !.ret = ret]

\* a getSession that stores a new object on every call
getSessionFresh(ss, s, playerName) ==
    [ss EXCEPT ![s] = [NewSession EXCEPT
                          !.playerName = IF playerName # NoName THEN playerName
                                         ELSE DefaultName(s),
                          !.joinedAt = now]]

\* getSession(sessionId, playerName) on the sessions map ss
getSession(ss, s, playerName) ==
    LET had == IF ss[s].exists THEN ss
               ELSE [ss EXCEPT ![s] =
                        [NewSession EXCEPT
                            !.playerName = IF playerName # NoName THEN playerName
                                           ELSE DefaultName(s),
                            !.joinedAt = now]]
    IN IF playerName # NoName THEN [had EXCEPT ![s].playerName = playerName]
       ELSE had

\* the session object of joinedAt j that a handler obtained for s is still
\* the one in the map (cleanupSessions deletes only objects older than any
\* it could be replaced by)
Held(s, j) == sessions[s].exists /\ sessions[s].joinedAt = j

\* GameRound.findOne().sort({roundNumber: -1}): 0 when the store is empty
LatestRoundNumber ==
    IF store = <<>> THEN 0
    ELSE CHOOSE n \in {store[i].roundNumber : i \in 1..Len(store)} :
            \A j \in 1..Len(store) : store[j].roundNumber <= n

\* GameRound.findOne({status: {$in: ['betting', 'active']}}): first in natural order
StoredOpen == {i \in 1..Len(store) : store[i].status \in {"betting", "active"}}
FirstStoredOpen == CHOOSE i \in StoredOpen : \A j \in StoredOpen : i <= j

\* `await this.initialize()`: the call runs synchronously up to its first await
CallInitialize(tk, iret) ==
    IF initialized THEN [tk EXCEPT !.pc = iret]
    ELSE [tk EXCEPT !.pc = "init_latest", !.iret = iret]

\* initialize has resolved: the caller continues after its await
ReturnFromInitialize(tk) ==
    IF tk.iret = "done" THEN DoneTask ELSE [tk EXCEPT !.pc = tk.iret, !.iret = ""]

\* `await this.createNewRound()`: its first statement is `await this.initialize()`
CallCreateNewRound(tk, cret) ==
    CallInitialize([tk EXCEPT !.cret = cret], "cn_body")

\* a player count that counts bets
countBets(bets) == Len(bets)

distinctPlayers(bets) == Cardinality({bets[i].sessionId : i \in 1..Len(bets)})

\* ---------------------------------------------------------- initialize
\* server.listen callback: await connectDB(); await gameEngine.initialize()
Startup ==
    /\ TimerTurn
    /\ task["startup"].pc = "boot"
    /\ task' = [task EXCEPT !["startup"] = CallInitialize(@, "done")]
    /\ UNCHANGED <<engineVars, sessions, rounds, store, budgetVars, timerVars, alive, clockVars, faultVars>>

\* continuation after `await GameRound.findOne().sort(...)` answered with
\* the roundNumber latest (0 for null)
InitializeLatestOn(t, latest) ==
    /\ Turn(t)
    /\ IF latest # 0
       THEN /\ roundCounter' = latest + 1
            /\ task' = [task EXCEPT ![t].pc = "init_active", ![t].found = 0]
            /\ UNCHANGED initialized
       ELSE /\ roundCounter' = 1
            /\ initialized' = TRUE
            /\ task' = [task EXCEPT ![t] = ReturnFromInitialize([@ EXCEPT !.found = 0])]
    /\ UNCHANGED <<gameState, currentRound, multiplier, multiplierInterval, elapsed,
                   sessions, rounds, store, budgetVars, timerVars, alive, clockVars, faultVars>>

\* the query reads the store when its answer arrives
InitializeLatest(t) ==
    /\ task[t].pc = "init_latest"
    /\ InitializeLatestOn(t, LatestRoundNumber)

\* continuation after `await GameRound.findOne({status: ...})` answered with
\* the document at position open of the store (0 for null):
\* activeRound.status = 'completed'; activeRound.save()
InitializeActiveOn(t, open) ==
    /\ Turn(t)
    /\ IF open # 0
       THEN /\ store' = [store EXCEPT ![open].status = "completed"]
            /\ task' = [task EXCEPT ![t].pc = "init_saved", ![t].found = 0]
            /\ UNCHANGED initialized
       ELSE /\ initialized' = TRUE
            /\ task' = [task EXCEPT ![t] = ReturnFromInitialize([@ EXCEPT !.found = 0])]
            /\ UNCHANGED store
    /\ UNCHANGED <<gameState, currentRound, roundCounter, multiplier,
                   multiplierInterval, elapsed, sessions, rounds, budgetVars,
                   timerVars, alive, clockVars, faultVars>>

\* the query reads the store when its answer arrives
InitializeActive(t) ==
    /\ task[t].pc = "init_active"
    /\ InitializeActiveOn(t, IF StoredOpen # {} THEN FirstStoredOpen ELSE 0)

\* the same two queries when the store runs a query at any moment between
\* the call and the answer: the store runs it ...
FindLatest(t) ==
    /\ Turn(t)
    /\ task[t].pc = "init_latest"
    /\ task' = [task EXCEPT ![t].pc = "init_latest_got", ![t].found = LatestRoundNumber]
    /\ UNCHANGED <<engineVars, sessions, rounds, store, budgetVars, timerVars, alive,
                   clockVars, faultVars>>

FindActive(t) ==
    /\ Turn(t)
    /\ task[t].pc = "init_active"
    /\ task' = [task EXCEPT ![t].pc = "init_active_got",
                            ![t].found = IF StoredOpen # {} THEN FirstStoredOpen ELSE 0]
    /\ UNCHANGED <<engineVars, sessions, rounds, store, budgetVars, timerVars, alive,
                   clockVars, faultVars>>

\* ... and the answer arrives later
InitializeLatestAnswered(t) ==
    /\ task[t].pc = "init_latest_got"
    /\ InitializeLatestOn(t, task[t].found)

InitializeActiveAnswered(t) ==
    /\ task[t].pc = "init_active_got"
    /\ InitializeActiveOn(t, task[t].found)

\* continuation after `await activeRound.save()`
InitializeSaved(t) ==
    /\ Turn(t)
    /\ task[t].pc = "init_saved"
    /\ initialized' = TRUE
    /\ task' = [task EXCEPT ![t] = ReturnFromInitialize(@)]
    /\ UNCHANGED <<gameState, currentRound, roundCounter, multiplier,
                   multiplierInterval, elapsed, sessions, rounds, store, budgetVars,
                   timerVars, alive, clockVars, faultVars>>

\* ------------------------------------------- generateProvablyFairCrash
\* The digest is modelled at a reduced width: HashLen hex characters instead
\* of the 64 of SHA-256, of which the leading HashIntDigits (13 in the source)
\* form hashInt, so that hashInt / 16^HashIntDigits is the source's
\* hashInt / 2^52.
HashLen == 3
HashIntDigits == 2
HashSpace == 16 ^ HashLen
HashIntSpace == 16 ^ HashIntDigits

\* Number.prototype.toString(): the decimal digits of n >= 0
RECURSIVE toString(_)
toString(n) == IF n < 10 THEN <<n>> ELSE Append(toString(n \div 10), n % 10)

\* crypto.createHash('sha256').update(str).digest('hex'): a deterministic
\* function of every character of str and of their order, here a
\* multiplicative digest over HashSpace
RECURSIVE digestState(_)
digestState(str) ==
    IF str = <<>> THEN 0
    ELSE ((digestState(SubSeq(str, 1, Len(str) - 1)) + str[Len(str)] + 1) * 37) % HashSpace

sha256(str) ==
    [i \in 1..HashLen |-> (digestState(str) \div (16 ^ (HashLen - i))) % 16]

\* parseInt(hex, 16)
RECURSIVE parseInt16(_)
parseInt16(hex) ==
    IF hex = <<>> THEN 0
    ELSE 16 * parseInt16(SubSeq(hex, 1, Len(hex) - 1)) + hex[Len(hex)]

\* (100 * e - 100)^3 * 16^HashIntDigits rounded down, e = 2.718281828
ScaledCube == 1298742811
\* the quotient by Math.pow(0, 1/3) = 0 is Infinity: above every finite value
Infinity == 1000000

\* the largest c in lo..hi with c^3 <= q (lo^3 <= q)
RECURSIVE cubeRootFloor(_, _, _)
cubeRootFloor(lo, hi, q) ==
    IF lo = hi THEN lo
    ELSE LET mid == (lo + hi + 1) \div 2
         IN IF mid * mid * mid <= q THEN cubeRootFloor(mid, hi, q)
            ELSE cubeRootFloor(lo, mid - 1, q)

\* Math.floor((100 * e - 100) / Math.pow(hashInt / Math.pow(2, 52), 1/3)),
\* the crash point in hundredths before the clamp:
\* c <= K / (h / S)^(1/3)  <=>  c^3 * h <= K^3 * S  <=>  c^3 <= (K^3 * S) div h
rawCrashPoint(hashInt) ==
    IF hashInt = 0 THEN Infinity
    ELSE cubeRootFloor(1, 1290, ScaledCube \div hashInt)

Min(a, b) == IF a <= b THEN a ELSE b
Max(a, b) == IF a >= b THEN a ELSE b

\* the clamp left out
unclamped(raw) == raw

\* Math.max(1.01, Math.min(120, crashPoint)), in hundredths
finalCrashPoint(raw) == Max(101, Min(12000, raw))

\* the crash point derived from a digest
crashPointOfHash(hash) ==
    finalCrashPoint(rawCrashPoint(parseInt16(SubSeq(hash, 1, HashIntDigits))))

\* the body of generateProvablyFairCrash as a function of the drawn seed and
\* of the counter value n it reads
generate(seed, n) ==
    LET seedWithRound == seed \o toString(n)
        hash == sha256(seedWithRound)
    IN [seed |-> seed, hash |-> hash, crashPoint |-> crashPointOfHash(hash)]

\* the generator run after `this.roundCounter++` instead of before it
generateAfterIncrement(seed) == generate(seed, roundCounter + 1)

\* generateProvablyFairCrash() with the drawn seed: reads this.roundCounter
generateProvablyFairCrash(seed) == generate(seed, roundCounter)

\* ------------------------------------------------------ createNewRound
\* a fresh GameRound document as new GameRound({...}) builds it
NewRound(n, fair) ==
    [roundNumber |-> n, seed |-> fair.seed, hash |-> fair.hash,
     crashPoint |-> fair.crashPoint, status |-> "betting",
     activeBets |-> <<>>, totalBets |-> 0, totalPlayers |-> 0, crashes |-> 0]

\* generateProvablyFairCrash with a seed of S, new GameRound,
\* gameState = 'betting', save()
createNewRoundFrom(t, S) ==
    /\ Turn(t)
    /\ task[t].pc = "cn_body"
    /\ roundsLeft > 0
    /\ roundsLeft' = roundsLeft - 1
    /\ \E seed \in S :
          rounds' = Append(rounds, NewRound(roundCounter, generateProvablyFairCrash(seed)))
    /\ store' = Append(store, [roundNumber |-> roundCounter, status |-> "betting"])
    /\ roundCounter' = roundCounter + 1
    /\ currentRound' = Len(rounds) + 1
    /\ gameState' = "betting"
    /\ task' = [task EXCEPT ![t].pc = "cn_saved"]
    /\ UNCHANGED <<multiplier, multiplierInterval, elapsed, initialized, sessions,
                   requestsLeft, timerVars, alive, clockVars, faultVars>>

createNewRound(t) == createNewRoundFrom(t, Seeds)

\* continuation after `await this.currentRound.save()`: return this.currentRound
createNewRoundSaved(t) ==
    /\ Turn(t)
    /\ task[t].pc = "cn_saved"
    /\ task' = [task EXCEPT ![t] =
                   IF task[t].cret = "done" THEN DoneTask
                   ELSE [@ EXCEPT !.pc = task[t].cret, !.cret = ""]]
    /\ UNCHANGED <<engineVars, sessions, rounds, store, budgetVars, timerVars, alive, clockVars, faultVars>>

\* --------------------------------------------------------------- timers
\* delay in ms of each setTimeout / setInterval kept in the timers queue
Delay(k) ==
    CASE k = "first" -> 2000
      [] k = "tick" -> 15000
      [] k = "start" -> 5000
      [] k = "reset" -> 2000
      [] k = "guarded" -> 3000

\* `timers` lists the armed timers in the order they were armed
Positions(k) == {i \in 1..Len(timers) : timers[i] = k}
Pending(k) == Cardinality(Positions(k))
Oldest(k) == CHOOSE i \in Positions(k) : \A j \in Positions(k) : i <= j

\* the oldest timer of kind k may fire: a timer armed before it with a delay
\* that is not longer has an earlier deadline and fires first; any other
\* order is possible, the latencies between the arming points being free
Due(k) ==
    /\ Positions(k) # {}
    /\ \A j \in 1..(Oldest(k) - 1) : Delay(timers[j]) > Delay(k)

Fired(k) == SubSeq(timers, 1, Oldest(k) - 1) \o SubSeq(timers, Oldest(k) + 1, Len(timers))
Armed(q, k) == Append(q, k)

\* ----------------------------------------------------------- game loop
\* setTimeout(async () => { await gameEngine.createNewRound(); ... }, 2000)
FirstRoundTimer ==
    /\ TimerTurn
    /\ Due("first")
    /\ timers' = Fired("first")
    /\ task' = [task EXCEPT !["first"] = CallCreateNewRound(@, "done")]
    /\ UNCHANGED <<engineVars, sessions, rounds, store, budgetVars, intervals,
                   nextHandle, crashSaves, alive, clockVars, faultVars>>

\* the rest of the 15 s tick once the round exists: broadcast, countdown and
\* the 5 s start-round timeout, added to the armed timers q; a null
\* currentRound throws into the catch before the timeout is armed
TickRest(q) == IF currentRound = 0 THEN q ELSE Armed(q, "start")

\* room for the start-round timeout of this tick
CanArmStart == currentRound = 0 \/ Pending("start") < MaxStartTimers

\* setInterval(async () => {...}, 15000); armed together with the 2 s timeout
\* of the first round, so its first firing comes after that timeout's
GameLoopTick ==
    /\ TimerTurn
    /\ Due("tick")
    /\ task["tick"].pc = "idle"
    /\ IF gameState \notin {"waiting", "betting"}
       THEN /\ timers' = Armed(Fired("tick"), "tick")
            /\ UNCHANGED task
       ELSE IF currentRound = 0 \/ gameState = "waiting"
       THEN /\ task' = [task EXCEPT !["tick"] = CallCreateNewRound(@, "tick_rest")]
            /\ timers' = Armed(Fired("tick"), "tick")
       ELSE /\ CanArmStart
            /\ timers' = Armed(TickRest(Fired("tick")), "tick")
            /\ UNCHANGED task
    /\ UNCHANGED <<engineVars, sessions, rounds, store, budgetVars, intervals,
                   nextHandle, crashSaves, alive, clockVars, faultVars>>

\* continuation of the tick after `await gameEngine.createNewRound()`
GameLoopTickRest ==
    /\ Turn("tick")
    /\ task["tick"].pc = "tick_rest"
    /\ CanArmStart
    /\ timers' = TickRest(timers)
    /\ task' = [task EXCEPT !["tick"] = IdleTask]
    /\ UNCHANGED <<engineVars, sessions, rounds, store, budgetVars, intervals,
                   nextHandle, crashSaves, alive, clockVars, faultVars>>

\* ---------------------------------------------------------- startRound
\* the 5 s timeout of the tick: if (gameState === 'betting') await startRound().
\* startRound runs synchronously up to `await this.currentRound.save()`; its
\* `if (!this.currentRound) await this.createNewRound()` needs a null round,
\* which never coexists with gameState 'betting' (BettingHasRound).
StartRoundTimer ==
    /\ TimerTurn
    /\ Due("start")
    /\ task["start"].pc = "idle"
    /\ timers' = Fired("start")
    /\ IF gameState # "betting"
       THEN UNCHANGED <<engineVars, rounds, store, task>>
       ELSE IF currentRound = 0
       THEN /\ task' = [task EXCEPT !["start"] = CallCreateNewRound(@, "sr_body")]
            /\ UNCHANGED <<engineVars, rounds, store>>
       ELSE /\ rounds' = [rounds EXCEPT ![currentRound].status = "active"]
            /\ store' = [store EXCEPT ![currentRound].status = "active"]
            /\ gameState' = "active"
            /\ multiplier' = 100
            /\ elapsed' = 0
            /\ task' = [task EXCEPT !["start"].pc = "sr_saved"]
            /\ UNCHANGED <<currentRound, roundCounter, multiplierInterval, initialized>>
    /\ UNCHANGED <<sessions, budgetVars, intervals, nextHandle, crashSaves,
                   alive, clockVars, faultVars>>

\* continuation after the save of startRound: arm the 100 ms multiplier
\* interval; back in the timeout callback the broadcast reads
\* gameEngine.currentRound.roundNumber, which throws outside any try/catch
\* when the round is gone (the unhandled rejection ends the process)
startRoundSaved ==
    /\ TimerTurn
    /\ task["start"].pc = "sr_saved"
    /\ intervals' = intervals \cup {nextHandle}
    /\ multiplierInterval' = nextHandle
    /\ nextHandle' = nextHandle + 1
    /\ alive' = (currentRound # 0)
    /\ task' = [task EXCEPT !["start"] = IdleTask]
    /\ UNCHANGED <<gameState, currentRound, roundCounter, multiplier, elapsed,
                   initialized, sessions, rounds, store, budgetVars,
                   crashSaves, timers, clockVars, faultVars>>

\* ------------------------------------------- updateMultiplier / crashGame
\* the multiplier reaches the crash point at clock position e
Crashes(e) == MultAt(e) >= rounds[currentRound].crashPoint

\* one firing of multiplier interval h at clock position e.  With no current
\* round the read of crashPoint throws inside the timer callback (uncaught).
\* At the crash, crashGame runs up to `await this.currentRound.save()`.
updateMultiplier(h, e) ==
    /\ TimerTurn
    /\ h \in intervals
    /\ e \in elapsed..MaxElapsed
    /\ e > elapsed \/ e = MaxElapsed
    /\ elapsed' = e
    /\ multiplier' = MultAt(e)
    /\ IF currentRound = 0
       THEN /\ alive' = FALSE
            /\ UNCHANGED <<gameState, rounds, store, intervals, crashSaves>>
       ELSE IF Crashes(e)
       THEN /\ crashSaves < MaxCrashSaves
            /\ rounds[currentRound].crashes < MaxCrashes
            /\ intervals' = intervals \ {multiplierInterval}
            /\ gameState' = "crashed"
            /\ rounds' = [rounds EXCEPT ![currentRound].status = "crashed",
                                        ![currentRound].crashes = @ + 1]
            /\ store' = [store EXCEPT ![currentRound].status = "crashed"]
            /\ crashSaves' = crashSaves + 1
            /\ UNCHANGED alive
       ELSE UNCHANGED <<gameState, rounds, store, intervals, crashSaves, alive>>
    /\ UNCHANGED <<currentRound, roundCounter, multiplierInterval, initialized,
                   sessions, task, budgetVars, nextHandle, timers, clockVars, faultVars>>

\* processUncastedBets on the sessions map
processUncastedBets(ss) ==
    IF currentRound = 0 THEN ss
    ELSE LET bets == rounds[currentRound].activeBets
             losers == {bets[i].sessionId : i \in {j \in 1..Len(bets) : ~bets[j].cashedOut}}
         IN [s \in DOMAIN ss |->
                IF s \in losers /\ ss[s].exists /\ ss[s].currentBet # NoBet
                THEN [ss[s] EXCEPT !.currentBet.isActive = FALSE]
                ELSE ss[s]]

\* a crashGame continuation that records the multiplier reached as the
\* round's crash point
crashGameSavedRecording ==
    /\ TimerTurn
    /\ crashSaves > 0
    /\ Pending("reset") < MaxResetTimers
    /\ crashSaves' = crashSaves - 1
    /\ sessions' = processUncastedBets(sessions)
    /\ timers' = Armed(timers, "reset")
    /\ rounds' = IF currentRound = 0 THEN rounds
                  ELSE [rounds EXCEPT ![currentRound].crashPoint = multiplier]
    /\ UNCHANGED <<engineVars, store, task, budgetVars, intervals,
                   nextHandle, alive, clockVars, faultVars>>

\* continuation of crashGame after its save: processUncastedBets and the
\* 2 s timeout of resetForNewRound
crashGameSaved ==
    /\ TimerTurn
    /\ crashSaves > 0
    /\ Pending("reset") < MaxResetTimers
    /\ crashSaves' = crashSaves - 1
    /\ sessions' = processUncastedBets(sessions)
    /\ timers' = Armed(timers, "reset")
    /\ UNCHANGED <<engineVars, rounds, store, task, budgetVars, intervals,
                   nextHandle, alive, clockVars, faultVars>>

resetForNewRound ==
    /\ currentRound' = 0
    /\ multiplier' = 100
    /\ gameState' = "waiting"

\* the 2 s timeout armed by crashGame
EngineResetTimer ==
    /\ TimerTurn
    /\ Due("reset")
    /\ timers' = Fired("reset")
    /\ resetForNewRound
    /\ UNCHANGED <<roundCounter, multiplierInterval, elapsed, initialized,
                   sessions, rounds, store, task, budgetVars, intervals,
                   nextHandle, crashSaves, alive, clockVars, faultVars>>

\* the 500 ms crash poll of the game loop arms a 3 s timeout while crashed
CrashPoll ==
    /\ TimerTurn
    /\ gameState = "crashed"
    /\ Pending("guarded") < MaxGuardedTimers
    /\ timers' = Armed(timers, "guarded")
    /\ UNCHANGED <<engineVars, sessions, rounds, store, task, budgetVars,
                   intervals, nextHandle, crashSaves, alive, clockVars, faultVars>>

\* the 3 s timeout of the crash poll: reset only if still crashed
PollResetTimer ==
    /\ TimerTurn
    /\ Due("guarded")
    /\ timers' = Fired("guarded")
    /\ IF gameState = "crashed"
       THEN resetForNewRound
       ELSE UNCHANGED <<currentRound, multiplier, gameState>>
    /\ UNCHANGED <<roundCounter, multiplierInterval, elapsed, initialized,
                   sessions, rounds, store, task, budgetVars, intervals,
                   nextHandle, crashSaves, alive, clockVars, faultVars>>

\* ------------------------------------------------------------ requests
\* a new request is handled in the first free handler slot
FreeSlot(t) ==
    /\ task[t].pc = "idle"
    /\ t = "r2" => task["r1"].pc # "idle"

\* the handler sends the answer (ws.send / res.json) and ends
Reply(t) ==
    /\ Turn(t)
    /\ task[t].pc = "reply"
    /\ task' = [task EXCEPT ![t] = IdleTask]
    /\ UNCHANGED <<engineVars, sessions, rounds, store, budgetVars, timerVars, alive, clockVars, faultVars>>

\* --------------------------------------------------- CryptoPriceService
\* crypto amounts are counted in thousandths of a coin
CryptoScale == 1000

\* a conversion that multiplies by the price
convertMultiplying(usdAmount, p) ==
    [cryptoAmount |-> usdAmount * p, priceAtTime |-> p]

\* convertUsdToCrypto at price p: cryptoAmount = usdAmount / cryptoPrice
convertUsdToCrypto(usdAmount, p) ==
    [cryptoAmount |-> (usdAmount * CryptoScale) \div p, priceAtTime |-> p]

\* convertCryptoToUsd at price p: usdAmount = cryptoAmount * cryptoPrice
convertCryptoToUsd(cryptoAmount, p) ==
    [usdAmount |-> (cryptoAmount * p) \div CryptoScale, priceAtTime |-> p]

\* a win that leaves the multiplier out
stakeOnly(cryptoAmount, mult) == cryptoAmount

\* bet.cryptoAmount * this.multiplier, the multiplier being in hundredths
winAmount(cryptoAmount, mult) == (cryptoAmount * mult) \div 100

\* ------------------------------------------------------------ placeBet
\* a place-bet request arrives: `await this.initialize()`
placeBet(t, s, a) ==
    /\ Turn(t)
    /\ FreeSlot(t)
    /\ requestsLeft > 0
    /\ requestsLeft' = requestsLeft - 1
    /\ task' = [task EXCEPT ![t] = CallInitialize([IdleTask EXCEPT !.sid = s, !.amt = a],
                                                  "pb_check")]
    /\ UNCHANGED <<engineVars, sessions, rounds, store, roundsLeft, timerVars, alive, clockVars, faultVars>>

\* POST /bet (HTTP controller placeBet): a missing or zero usdAmount and a
\* usdAmount <= 0 are answered with status 400 before the engine is called
placeBetHttp(t, s, a) ==
    IF a = 0 \/ a <= 0
    THEN /\ Turn(t)
         /\ FreeSlot(t)
         /\ requestsLeft > 0
         /\ requestsLeft' = requestsLeft - 1
         /\ task' = [task EXCEPT ![t] = Throw(s, "validation")]
         /\ UNCHANGED <<engineVars, sessions, rounds, store, roundsLeft, timerVars, alive, clockVars, faultVars>>
    ELSE placeBet(t, s, a)

\* WebSocket message place_bet: data.usdAmount goes to the engine as it is
placeBetWs(t, s, a) == placeBet(t, s, a)

\* the duplicate check with the bet's round compared to the round counter
hasBetRoundCounter(session) ==
    session.currentBet # NoBet /\ session.currentBet.roundId = roundCounter

\* the session already holds a bet recorded against the current round
hasBetThisRound(session) ==
    session.currentBet # NoBet /\ session.currentBet.roundId = currentRound

\* getSession, the duplicate check, the balance check and the call of
\* convertUsdToCrypto, run once the round exists
placeBetChecks(t) ==
    LET ss == getSession(sessions, task[t].sid, NoName)
        session == ss[task[t].sid]
    IN /\ sessions' = ss
       /\ referenced' = [referenced EXCEPT ![task[t].sid] = now]
       /\ IF session.currentBet # NoBet /\ currentRound = 0
          THEN task' = [task EXCEPT ![t] = Throw(task[t].sid, "typeerror")]
          ELSE IF hasBetThisRound(session)
          THEN task' = [task EXCEPT ![t] = Throw(task[t].sid, "duplicate")]
          ELSE IF session.balance < task[t].amt
          THEN task' = [task EXCEPT ![t] = Throw(task[t].sid, "insufficient")]
          ELSE task' = [task EXCEPT ![t].pc = "pb_conv",
                                    ![t].joined = session.joinedAt]

\* continuation after `await this.initialize()`: the phase check and the
\* lazy creation of the round
placeBetPhase(t) ==
    /\ Turn(t)
    /\ task[t].pc = "pb_check"
    /\ IF gameState \notin {"betting", "waiting"}
       THEN /\ task' = [task EXCEPT ![t] = Throw(task[t].sid, "state")]
            /\ UNCHANGED <<sessions, referenced>>
       ELSE IF currentRound = 0
       THEN /\ task' = [task EXCEPT ![t] = CallCreateNewRound(@, "pb_session")]
            /\ UNCHANGED <<sessions, referenced>>
       ELSE placeBetChecks(t)
    /\ UNCHANGED <<engineVars, rounds, store, budgetVars, timerVars, alive, now, faultVars>>

\* continuation after `await this.createNewRound()`
placeBetSession(t) ==
    /\ Turn(t)
    /\ task[t].pc = "pb_session"
    /\ placeBetChecks(t)
    /\ UNCHANGED <<engineVars, rounds, store, budgetVars, timerVars, alive, now, faultVars>>

\* continuation after `await convertUsdToCrypto(...)` at price p: push the
\* bet on this.currentRound, update the totals, save()
placeBetConverted(t, p) ==
    /\ Turn(t)
    /\ task[t].pc = "pb_conv"
    /\ IF currentRound = 0
       THEN /\ task' = [task EXCEPT ![t] = Throw(task[t].sid, "typeerror")]
            /\ UNCHANGED rounds
       ELSE LET bets == Append(rounds[currentRound].activeBets,
                               [sessionId |-> task[t].sid,
                                usdAmount |-> task[t].amt,
                                cryptoAmount |-> convertUsdToCrypto(task[t].amt, p).cryptoAmount,
                                cashedOut |-> FALSE,
                                cashoutMultiplier |-> 0])
            IN /\ rounds' = [rounds EXCEPT
                    ![currentRound].activeBets = bets,
                    ![currentRound].totalBets = @ + task[t].amt,
                    ![currentRound].totalPlayers = distinctPlayers(bets)]
               /\ task' = [task EXCEPT ![t].pc = "pb_saved",
                                       ![t].crypto = convertUsdToCrypto(task[t].amt, p).cryptoAmount,
                                       ![t].usd = convertUsdToCrypto(task[t].amt, p).priceAtTime]
    /\ UNCHANGED <<engineVars, sessions, store, budgetVars, timerVars, alive, clockVars, faultVars>>

\* continuation after `await this.currentRound.save()`: debit the session and
\* record currentBet; reading this.currentRound._id throws when the round is
\* gone, after the balance and totalBets were already written.  When
\* cleanupSessions has deleted the session meanwhile the writes go to an
\* object that is no longer in the map.
placeBetSaved(t) ==
    /\ Turn(t)
    /\ task[t].pc = "pb_saved"
    /\ LET s == task[t].sid
           debited == [sessions[s] EXCEPT !.balance = @ - task[t].amt,
                                          !.totalBets = @ + 1]
       IN IF ~Held(s, task[t].joined)
          THEN /\ UNCHANGED sessions
               /\ task' = [task EXCEPT ![t] =
                     IF currentRound = 0 THEN Throw(s, "typeerror")
                     ELSE Return(s, "bet_ok_detached", NoReturn)]
          ELSE IF currentRound = 0
          THEN /\ sessions' = [sessions EXCEPT ![s] = debited]
               /\ task' = [task EXCEPT ![t] = Throw(task[t].sid, "typeerror")]
          ELSE /\ sessions' = [sessions EXCEPT ![s] =
                     [debited EXCEPT !.currentBet =
                         [roundId |-> currentRound, usdAmount |-> task[t].amt,
                          cryptoAmount |-> task[t].crypto,
                          priceAtBet |-> task[t].usd, isActive |-> TRUE]]]
               /\ task' = [task EXCEPT ![t] =
                     Return(s, "bet_ok", [NoReturn EXCEPT !.newBalance = debited.balance])]
    /\ UNCHANGED <<engineVars, rounds, store, budgetVars, timerVars, alive, clockVars, faultVars>>

\* ------------------------------------------------------------- cashOut
\* index of the first bet of s, cashed out or not
findIndexAny(bets, s) ==
    LET hits == {i \in 1..Len(bets) : bets[i].sessionId = s}
    IN IF hits = {} THEN 0 ELSE CHOOSE i \in hits : \A j \in hits : i <= j

\* index of the first bet of s that is not cashed out (findIndex), 0 for -1
findIndex(bets, s) ==
    LET hits == {i \in 1..Len(bets) : bets[i].sessionId = s /\ ~bets[i].cashedOut}
    IN IF hits = {} THEN 0 ELSE CHOOSE i \in hits : \A j \in hits : i <= j

\* a cash-out request arrives: everything up to `await convertCryptoToUsd(...)`
cashOut(t, s) ==
    /\ Turn(t)
    /\ FreeSlot(t)
    /\ requestsLeft > 0
    /\ requestsLeft' = requestsLeft - 1
    /\ IF gameState # "active"
       THEN /\ task' = [task EXCEPT ![t] = Throw(s, "state")]
            /\ UNCHANGED <<sessions, referenced>>
       ELSE LET ss == getSession(sessions, s, NoName)
                bets == rounds[currentRound].activeBets
                i == findIndex(bets, s)
            IN /\ sessions' = ss
               /\ referenced' = [referenced EXCEPT ![s] = now]
               /\ IF ss[s].currentBet = NoBet \/ ~ss[s].currentBet.isActive
                  THEN task' = [task EXCEPT ![t] = Throw(s, "nobet")]
                  ELSE IF i = 0
                  THEN task' = [task EXCEPT ![t] = Throw(s, "nobet")]
                  ELSE task' = [task EXCEPT ![t] =
                          [IdleTask EXCEPT !.pc = "co_conv", !.sid = s, !.idx = i,
                                           !.bround = currentRound,
                                           !.joined = ss[s].joinedAt,
                                           !.amt = bets[i].usdAmount,
                                           !.crypto = winAmount(bets[i].cryptoAmount, multiplier)]]
    /\ UNCHANGED <<engineVars, rounds, store, roundsLeft, timerVars, alive, now, faultVars>>

\* continuation after the conversion at price p: mark
\* this.currentRound.activeBets[betIndex] cashed out, save()
cashOutConverted(t, p) ==
    /\ Turn(t)
    /\ task[t].pc = "co_conv"
    /\ IF currentRound = 0
       THEN /\ task' = [task EXCEPT ![t] = Throw(task[t].sid, "typeerror")]
            /\ UNCHANGED rounds
       ELSE IF task[t].idx > Len(rounds[currentRound].activeBets)
       THEN /\ task' = [task EXCEPT ![t] = Throw(task[t].sid, "typeerror")]
            /\ UNCHANGED rounds
       ELSE /\ rounds' = [rounds EXCEPT
                  ![currentRound].activeBets[task[t].idx].cashedOut = TRUE,
                  ![currentRound].activeBets[task[t].idx].cashoutMultiplier = multiplier]
            /\ task' = [task EXCEPT ![t].pc = "co_saved",
                                    ![t].usd = convertCryptoToUsd(task[t].crypto, p).usdAmount]
    /\ UNCHANGED <<engineVars, sessions, store, budgetVars, timerVars, alive, clockVars, faultVars>>

\* continuation after the save: credit the session (an object no longer in
\* the map when cleanupSessions has deleted the session meanwhile)
cashOutSaved(t) ==
    /\ Turn(t)
    /\ task[t].pc = "co_saved"
    /\ IF ~Held(task[t].sid, task[t].joined)
       THEN /\ UNCHANGED sessions
            /\ task' = [task EXCEPT ![t] =
                  Return(task[t].sid, "cash_ok_detached",
                         [NoReturn EXCEPT !.multiplier = multiplier,
                                          !.winAmount = task[t].usd,
                                          !.profit = task[t].usd - task[t].amt])]
       ELSE /\ sessions' = [sessions EXCEPT
                  ![task[t].sid].balance = @ + task[t].usd,
                  ![task[t].sid].totalWins = @ + 1,
                  ![task[t].sid].totalWinnings = @ + (task[t].usd - task[t].amt),
                  ![task[t].sid].currentBet.isActive = FALSE]
            /\ task' = [task EXCEPT ![t] =
                  Return(task[t].sid, "cash_ok",
                         [multiplier |-> multiplier, winAmount |-> task[t].usd,
                          profit |-> task[t].usd - task[t].amt,
                          newBalance |-> sessions'[task[t].sid].balance])]
    /\ UNCHANGED <<engineVars, rounds, store, budgetVars, timerVars, alive, clockVars, faultVars>>

\* ------------------------------------------------------ specifications
Boot ==
    \/ Startup
    \/ FirstRoundTimer
    \/ \E t \in Tasks : InitializeLatest(t)
    \/ \E t \in Tasks : InitializeActive(t)
    \/ \E t \in Tasks : InitializeSaved(t)

Lifecycle ==
    \/ \E t \in Tasks : createNewRound(t)
    \/ \E t \in Tasks : createNewRoundSaved(t)
    \/ GameLoopTick
    \/ GameLoopTickRest
    \/ StartRoundTimer
    \/ startRoundSaved
    \/ \E h \in intervals, e \in 0..MaxElapsed : updateMultiplier(h, e)
    \/ crashGameSaved
    \/ EngineResetTimer
    \/ CrashPoll
    \/ PollResetTimer

Requests ==
    \/ \E t \in Slots, s \in SessionIds, a \in Amounts : placeBet(t, s, a)
    \/ \E t \in Slots : placeBetPhase(t)
    \/ \E t \in Slots : placeBetSession(t)
    \/ \E t \in Slots, p \in Prices : placeBetConverted(t, p)
    \/ \E t \in Slots : placeBetSaved(t)
    \/ \E t \in Slots, s \in SessionIds : cashOut(t, s)
    \/ \E t \in Slots, p \in Prices : cashOutConverted(t, p)
    \/ \E t \in Slots : cashOutSaved(t)
    \/ \E t \in Slots : Reply(t)

\* the whole program from construction
Next == Boot \/ Lifecycle \/ Requests

Spec == Init /\ [][Next]_vars

\* the program once start-up is over: initialize has completed and the 2 s
\* timer has created the first round.  Spec reaches this state (Startup,
\* InitializeLatest, FirstRoundTimer, createNewRound, createNewRoundSaved).
\* Two request handlers may be in flight together.
InitSteady ==
    /\ gameState = "betting"
    /\ currentRound = 1
    /\ roundCounter = 2
    /\ multiplier = 100
    /\ multiplierInterval = 0
    /\ elapsed = 0
    /\ initialized = TRUE
    /\ sessions = [s \in SessionIds |-> NoSession]
    /\ \E seed \in Seeds : rounds = <<NewRound(1, generate(seed, 1))>>
    /\ store = <<[roundNumber |-> 1, status |-> "betting"]>>
    /\ task = [t \in TimerTasks \cup RequestTasks |->
                  IF t \in {"startup", "first"} THEN DoneTask ELSE IdleTask]
    /\ requestsLeft = MaxSteadyRequests
    /\ roundsLeft = MaxSteadyRounds
    /\ timers = <<"tick">>
    /\ intervals = {}
    /\ nextHandle = 1
    /\ crashSaves = 0
    /\ alive = TRUE
    /\ now = 0
    /\ referenced = [s \in SessionIds |-> 0]
    /\ writeFailures = 0

NextSteady == Lifecycle \/ Requests

SpecSteady == InitSteady /\ [][NextSteady]_vars

\* ------------------------------------------------- getCurrentGameState
\* a null field of the snapshot
null == 0

\* a snapshot that carries the crash point in every phase
snapshotRevealing(gs, round, mult, ss) ==
    [roundNumber |-> IF round = <<>> THEN 0 ELSE round[1].roundNumber,
     status |-> gs,
     multiplier |-> mult,
     crashPoint |-> IF round = <<>> THEN null ELSE round[1].crashPoint,
     totalBets |-> IF round = <<>> THEN 0 ELSE round[1].totalBets,
     totalPlayers |-> IF round = <<>> THEN 0 ELSE round[1].totalPlayers,
     activeBets |-> IF round = <<>> THEN <<>> ELSE round[1].activeBets,
     onlinePlayers |-> Cardinality({s \in DOMAIN ss : ss[s].exists})]

\* getCurrentGameState() on game state gs, current round `round` (<<>> when
\* it is null, else the one-element sequence of the document), multiplier
\* mult and sessions map ss
getCurrentGameStateOf(gs, round, mult, ss) ==
    [roundNumber |-> IF round = <<>> THEN 0 ELSE round[1].roundNumber,
     status |-> gs,
     multiplier |-> mult,
     crashPoint |-> IF gs = "crashed" /\ round # <<>> THEN round[1].crashPoint ELSE null,
     totalBets |-> IF round = <<>> THEN 0 ELSE round[1].totalBets,
     totalPlayers |-> IF round = <<>> THEN 0 ELSE round[1].totalPlayers,
     activeBets |-> IF round = <<>> THEN <<>> ELSE round[1].activeBets,
     onlinePlayers |-> Cardinality({s \in DOMAIN ss : ss[s].exists})]

currentRoundDoc == IF currentRound = 0 THEN <<>> ELSE <<rounds[currentRound]>>

getCurrentGameState ==
    getCurrentGameStateOf(gameState, currentRoundDoc, multiplier, sessions)

\* ------------------------------------------------------ entry paths
\* The program once start-up is over, with place-bet requests that arrive
\* over HTTP or over the WebSocket and carry any amount a client can send.
InitEntry ==
    /\ gameState = "betting"
    /\ currentRound = 1
    /\ roundCounter = 2
    /\ multiplier = 100
    /\ multiplierInterval = 0
    /\ elapsed = 0
    /\ initialized = TRUE
    /\ sessions = [s \in SessionIds |-> NoSession]
    /\ \E seed \in Seeds : rounds = <<NewRound(1, generate(seed, 1))>>
    /\ store = <<[roundNumber |-> 1, status |-> "betting"]>>
    /\ task = [t \in TimerTasks \cup RequestTasks |->
                  IF t \in {"startup", "first"} THEN DoneTask ELSE IdleTask]
    /\ requestsLeft = MaxEntryRequests
    /\ roundsLeft = MaxEntryRounds
    /\ timers = <<"tick">>
    /\ intervals = {}
    /\ nextHandle = 1
    /\ crashSaves = 0
    /\ alive = TRUE
    /\ now = 0
    /\ referenced = [s \in SessionIds |-> 0]
    /\ writeFailures = 0

RequestsEntry ==
    \/ \E t \in Slots, s \in SessionIds, a \in AnyAmounts : placeBetHttp(t, s, a)
    \/ \E t \in Slots, s \in SessionIds, a \in AnyAmounts : placeBetWs(t, s, a)
    \/ \E t \in Slots : placeBetPhase(t)
    \/ \E t \in Slots : placeBetSession(t)
    \/ \E t \in Slots, p \in Prices : placeBetConverted(t, p)
    \/ \E t \in Slots : placeBetSaved(t)
    \/ \E t \in Slots, s \in SessionIds : cashOut(t, s)
    \/ \E t \in Slots, p \in Prices : cashOutConverted(t, p)
    \/ \E t \in Slots : cashOutSaved(t)
    \/ \E t \in Slots : Reply(t)

NextEntry == Lifecycle \/ RequestsEntry

SpecEntry == InitEntry /\ [][NextEntry]_vars

\* --------------------------------------------------- generator runs
\* The generator on every seed: the process has been restarted over a store
\* that holds the crashed rounds 1 .. k-1 of an earlier run, initialize has set
\* roundCounter = k, and the first-round timeout has called createNewRound,
\* which is about to run the generator.
StoredRound(n) ==
    [NewRound(n, generate(CHOOSE seed \in Seeds : TRUE, n)) EXCEPT !.status = "crashed"]

InitFair ==
    /\ gameState = "waiting"
    /\ currentRound = 0
    /\ roundCounter \in 1..MaxFairCounter
    /\ multiplier = 100
    /\ multiplierInterval = 0
    /\ elapsed = 0
    /\ initialized = TRUE
    /\ sessions = [s \in SessionIds |-> NoSession]
    /\ rounds = [n \in 1..(roundCounter - 1) |-> StoredRound(n)]
    /\ store = [n \in 1..(roundCounter - 1) |-> [roundNumber |-> n, status |-> "crashed"]]
    /\ task = [t \in TimerTasks \cup {"r1"} |->
                  IF t = "startup" THEN DoneTask
                  ELSE IF t = "first" THEN [IdleTask EXCEPT !.pc = "cn_body", !.cret = "done"]
                  ELSE IdleTask]
    /\ requestsLeft = 0
    /\ roundsLeft = MaxFairRounds
    /\ timers = <<"tick">>
    /\ intervals = {}
    /\ nextHandle = 1
    /\ crashSaves = 0
    /\ alive = TRUE
    /\ now = 0
    /\ referenced = [s \in SessionIds |-> 0]
    /\ writeFailures = 0

createNewRoundAnySeed(t) == createNewRoundFrom(t, AllSeeds)

NextFair ==
    \/ \E t \in Tasks : createNewRoundAnySeed(t)
    \/ \E t \in Tasks : createNewRoundSaved(t)

SpecFair == InitFair /\ [][NextFair]_vars

\* ----------------------------------------------------- sessions map
\* the 60 minutes of oneHourAgo in firings of the 30-minute cleanup interval
Retention == 2
Names == {"Ann"}

\* a deletion test that looks at the age only
expiredByAge(session, at) == session.joinedAt < at - Retention

\* the test of cleanupSessions at time `at`:
\* joinedAt < oneHourAgo && (!currentBet || !currentBet.isActive)
expired(session, at) ==
    /\ session.joinedAt < at - Retention
    /\ session.currentBet = NoBet \/ ~session.currentBet.isActive

cleanupSessions(ss, at) ==
    [s \in DOMAIN ss |-> IF ss[s].exists /\ expired(ss[s], at) THEN NoSession
                         ELSE ss[s]]

\* the 30-minute interval of startCleanup fires
CleanupTimer ==
    /\ TimerTurn
    /\ now < MaxNow
    /\ now' = now + 1
    /\ sessions' = cleanupSessions(sessions, now + 1)
    /\ UNCHANGED <<engineVars, rounds, store, task, budgetVars, timerVars, alive,
                   referenced, faultVars>>

\* WebSocket message get_session_info: getSessionInfo is getSession
getSessionInfo(s) ==
    /\ TimerTurn
    /\ sessions' = getSession(sessions, s, NoName)
    /\ referenced' = [referenced EXCEPT ![s] = now]
    /\ UNCHANGED <<engineVars, rounds, store, task, budgetVars, timerVars, alive, now, faultVars>>

\* WebSocket message set_player_name with data.playerName = name
setPlayerName(s, name) ==
    /\ TimerTurn
    /\ sessions' = getSession(sessions, s, name)
    /\ referenced' = [referenced EXCEPT ![s] = now]
    /\ UNCHANGED <<engineVars, rounds, store, task, budgetVars, timerVars, alive, now, faultVars>>

SessionOps ==
    \/ CleanupTimer
    \/ \E s \in SessionIds : getSessionInfo(s)
    \/ \E s \in SessionIds, name \in Names \cup {NoName} : setPlayerName(s, name)

\* the program observed over several cleanup periods, from a moment at
\* which its first round has crashed without bets and the engine is back
\* in 'waiting'
InitSessions ==
    /\ gameState = "waiting"
    /\ currentRound = 0
    /\ roundCounter = 2
    /\ multiplier = 100
    /\ multiplierInterval = 0
    /\ elapsed = 0
    /\ initialized = TRUE
    /\ sessions = [s \in SessionIds |-> NoSession]
    /\ rounds = <<[StoredRound(1) EXCEPT !.crashes = 1]>>
    /\ store = <<[roundNumber |-> 1, status |-> "crashed"]>>
    /\ task = [t \in TimerTasks \cup RequestTasks |->
                  IF t \in {"startup", "first"} THEN DoneTask ELSE IdleTask]
    /\ requestsLeft = MaxSessionRequests
    /\ roundsLeft = MaxSessionRounds
    /\ timers = <<"tick">>
    /\ intervals = {}
    /\ nextHandle = 1
    /\ crashSaves = 0
    /\ alive = TRUE
    /\ now = 0
    /\ referenced = [s \in SessionIds |-> 0]
    /\ writeFailures = 0

NextSessions == Lifecycle \/ Requests \/ SessionOps

SpecSessions == InitSessions /\ [][NextSessions]_vars

\* ---------------------------------------------------------- restart
\* The process is started over the store an earlier run has left: rounds
\* 1 .. k, each crashed or still 'betting' (a round that was replaced or
\* was live when the process ended stays as it was).  No client
\* sends requests.  The store runs a query at any moment between the call
\* and the answer.
StoredStatuses == {"crashed", "betting"}

InitRestart ==
    /\ gameState = "waiting"
    /\ currentRound = 0
    /\ roundCounter = 1
    /\ multiplier = 100
    /\ multiplierInterval = 0
    /\ elapsed = 0
    /\ initialized = FALSE
    /\ sessions = [s \in SessionIds |-> NoSession]
    /\ \E k \in 0..MaxStored : \E st \in [1..k -> StoredStatuses] :
          /\ rounds = [n \in 1..k |-> [StoredRound(n) EXCEPT !.status = st[n]]]
          /\ store = [n \in 1..k |-> [roundNumber |-> n, status |-> st[n]]]
    /\ task = [t \in TimerTasks \cup {"r1"} |->
                  IF t = "startup" THEN [IdleTask EXCEPT !.pc = "boot"] ELSE IdleTask]
    /\ requestsLeft = 0
    /\ roundsLeft = MaxRestartRounds
    /\ timers = <<"first", "tick">>
    /\ intervals = {}
    /\ nextHandle = 1
    /\ crashSaves = 0
    /\ alive = TRUE
    /\ now = 0
    /\ referenced = [s \in SessionIds |-> 0]
    /\ writeFailures = 0

BootQueries ==
    \/ Startup
    \/ FirstRoundTimer
    \/ \E t \in Tasks : FindLatest(t)
    \/ \E t \in Tasks : InitializeLatestAnswered(t)
    \/ \E t \in Tasks : FindActive(t)
    \/ \E t \in Tasks : InitializeActiveAnswered(t)
    \/ \E t \in Tasks : InitializeSaved(t)

NextRestart == BootQueries \/ Lifecycle

SpecRestart == InitRestart /\ [][NextRestart]_vars

\* ---------------------------------------------------- failing writes
\* save() rejects (the store is unreachable, or the connection is lost
\* before the acknowledgement arrives).  A rejection that no handler
\* catches ends the process or is only reported, depending on the Node
\* version and its --unhandled-rejections mode.

\* createNewRound rethrows an error whose code is not 11000: the 2 s timeout
\* and the 15 s tick catch and log it (the tick skips its broadcast and its
\* start-round timeout), startRound and placeBet pass it on
createNewRoundSaveThrows(t) ==
    /\ Turn(t)
    /\ task[t].pc = "cn_saved"
    /\ writeFailures < MaxWriteFailures
    /\ writeFailures' = writeFailures + 1
    /\ IF task[t].cret = "done"
       THEN /\ task' = [task EXCEPT ![t] = DoneTask]
            /\ UNCHANGED alive
       ELSE IF task[t].cret = "tick_rest"
       THEN /\ task' = [task EXCEPT ![t] = IdleTask]
            /\ UNCHANGED alive
       ELSE IF task[t].cret = "sr_body"
       THEN /\ task' = [task EXCEPT ![t] = IdleTask]
            /\ alive' \in BOOLEAN
       ELSE /\ task' = [task EXCEPT ![t] = Throw(task[t].sid, "savefailed")]
            /\ UNCHANGED alive
    /\ UNCHANGED <<engineVars, sessions, rounds, store, budgetVars, timerVars, clockVars>>

\* startRound throws at `await this.currentRound.save()`, after gameState =
\* 'active': the multiplier interval is not armed, and the start-round
\* timeout has no try/catch
startRoundSaveThrows ==
    /\ TimerTurn
    /\ task["start"].pc = "sr_saved"
    /\ writeFailures < MaxWriteFailures
    /\ writeFailures' = writeFailures + 1
    /\ task' = [task EXCEPT !["start"] = IdleTask]
    /\ alive' \in BOOLEAN
    /\ UNCHANGED <<engineVars, sessions, rounds, store, budgetVars, timerVars, clockVars>>

\* crashGame throws at `await this.currentRound.save()`, after gameState =
\* 'crashed' and clearInterval: processUncastedBets does not run and the 2 s
\* reset timeout is not armed; updateMultiplier does not await crashGame
crashGameSaveThrows ==
    /\ TimerTurn
    /\ crashSaves > 0
    /\ writeFailures < MaxWriteFailures
    /\ writeFailures' = writeFailures + 1
    /\ crashSaves' = crashSaves - 1
    /\ alive' \in BOOLEAN
    /\ UNCHANGED <<engineVars, sessions, rounds, store, task, budgetVars, timers,
                   intervals, nextHandle, clockVars>>

WriteFailures ==
    \/ \E t \in Tasks : createNewRoundSaveThrows(t)
    \/ startRoundSaveThrows
    \/ crashGameSaveThrows

\* the game loop with no clients, from a moment at which its first round has
\* crashed and the engine is back in 'waiting'
InitFaults ==
    /\ gameState = "waiting"
    /\ currentRound = 0
    /\ roundCounter = 2
    /\ multiplier = 100
    /\ multiplierInterval = 0
    /\ elapsed = 0
    /\ initialized = TRUE
    /\ sessions = [s \in SessionIds |-> NoSession]
    /\ rounds = <<[StoredRound(1) EXCEPT !.crashes = 1]>>
    /\ store = <<[roundNumber |-> 1, status |-> "crashed"]>>
    /\ task = [t \in TimerTasks \cup {"r1"} |->
                  IF t \in {"startup", "first"} THEN DoneTask ELSE IdleTask]
    /\ requestsLeft = 0
    /\ roundsLeft = MaxFaultRounds
    /\ timers = <<"tick">>
    /\ intervals = {}
    /\ nextHandle = 1
    /\ crashSaves = 0
    /\ alive = TRUE
    /\ now = 0
    /\ referenced = [s \in SessionIds |-> 0]
    /\ writeFailures = 0

NextFaults == Lifecycle \/ WriteFailures

\* every armed timer fires and every save() is answered (resolved or rejected)
TimersFire ==
    /\ WF_vars(GameLoopTick)
    /\ WF_vars(GameLoopTickRest)
    /\ WF_vars(StartRoundTimer)
    /\ WF_vars(\E h \in intervals, e \in 0..MaxElapsed : updateMultiplier(h, e))
    /\ WF_vars(EngineResetTimer)
    /\ WF_vars(CrashPoll)
    /\ WF_vars(PollResetTimer)
    /\ WF_vars(\E t \in Tasks : createNewRound(t))

SavesAnswered ==
    /\ WF_vars(\E t \in Tasks : createNewRoundSaved(t) \/ createNewRoundSaveThrows(t))
    /\ WF_vars(startRoundSaved \/ startRoundSaveThrows)
    /\ WF_vars(crashGameSaved \/ crashGameSaveThrows)

SpecFaults == InitFaults /\ [][NextFaults]_vars /\ TimersFire /\ SavesAnswered

\* the same game loop when every save() resolves
SavesResolved ==
    /\ WF_vars(\E t \in Tasks : createNewRoundSaved(t))
    /\ WF_vars(startRoundSaved)
    /\ WF_vars(crashGameSaved)

SpecLive == InitFaults /\ [][Lifecycle]_vars /\ TimersFire /\ SavesResolved

\* --------------------------------------------------------- two players
\* Two sessions send the requests that would succeed if they were alone: a
\* bet while the engine is waiting or betting and the session has not bet, a
\* cash-out while the round is active and the session's bet is active.  A
\* session sends its next request after the answer to the previous one.
Players == {"s1", "s2"}

Answered(s) == \A t \in Slots : task[t].pc = "idle" \/ task[t].sid # s

WouldBet(s) ==
    /\ gameState \in {"waiting", "betting"}
    /\ ~sessions[s].exists \/ sessions[s].currentBet = NoBet

WouldCashOut(s) ==
    /\ gameState = "active"
    /\ sessions[s].exists
    /\ sessions[s].currentBet.isActive
    /\ findIndex(rounds[currentRound].activeBets, s) # 0

\* the save() of another request on this.currentRound has not been answered
OtherSaveInFlight(t) ==
    \E o \in Slots \ {t} : task[o].pc \in {"pb_saved", "co_saved"}

\* placeBet after the conversion when the round document is being saved by
\* another request: the bet is pushed and the totals are updated, then
\* save() rejects at once (mongoose refuses a save() of a document whose
\* previous save() is in flight, ParallelSaveError) and placeBet throws
placeBetConvertedParallel(t, p) ==
    /\ Turn(t)
    /\ task[t].pc = "pb_conv"
    /\ currentRound # 0
    /\ OtherSaveInFlight(t)
    /\ LET bets == Append(rounds[currentRound].activeBets,
                          [sessionId |-> task[t].sid,
                           usdAmount |-> task[t].amt,
                           cryptoAmount |-> convertUsdToCrypto(task[t].amt, p).cryptoAmount,
                           cashedOut |-> FALSE,
                           cashoutMultiplier |-> 0])
       IN rounds' = [rounds EXCEPT
               ![currentRound].activeBets = bets,
               ![currentRound].totalBets = @ + task[t].amt,
               ![currentRound].totalPlayers = distinctPlayers(bets)]
    /\ task' = [task EXCEPT ![t] = Throw(task[t].sid, "parallelsave")]
    /\ UNCHANGED <<engineVars, sessions, store, budgetVars, timerVars, alive, clockVars,
                   faultVars>>

\* cashOut after the conversion in the same situation: the bet is marked
\* cashed out, then save() rejects and cashOut throws before the credit
cashOutConvertedParallel(t, p) ==
    /\ Turn(t)
    /\ task[t].pc = "co_conv"
    /\ currentRound # 0
    /\ task[t].idx <= Len(rounds[currentRound].activeBets)
    /\ OtherSaveInFlight(t)
    /\ rounds' = [rounds EXCEPT
          ![currentRound].activeBets[task[t].idx].cashedOut = TRUE,
          ![currentRound].activeBets[task[t].idx].cashoutMultiplier = multiplier]
    /\ task' = [task EXCEPT ![t] = Throw(task[t].sid, "parallelsave")]
    /\ UNCHANGED <<engineVars, sessions, store, budgetVars, timerVars, alive, clockVars,
                   faultVars>>

RequestsPair ==
    \/ \E t \in Slots, s \in Players, a \in Amounts :
          Answered(s) /\ WouldBet(s) /\ placeBet(t, s, a)
    \/ \E t \in Slots : placeBetPhase(t)
    \/ \E t \in Slots : placeBetSession(t)
    \/ \E t \in Slots, p \in Prices : placeBetConverted(t, p)
    \/ \E t \in Slots, p \in Prices : placeBetConvertedParallel(t, p)
    \/ \E t \in Slots : placeBetSaved(t)
    \/ \E t \in Slots, s \in Players :
          Answered(s) /\ WouldCashOut(s) /\ cashOut(t, s)
    \/ \E t \in Slots, p \in Prices : cashOutConverted(t, p)
    \/ \E t \in Slots, p \in Prices : cashOutConvertedParallel(t, p)
    \/ \E t \in Slots : cashOutSaved(t)
    \/ \E t \in Slots : Reply(t)

InitPair ==
    /\ gameState = "waiting"
    /\ currentRound = 0
    /\ roundCounter = 2
    /\ multiplier = 100
    /\ multiplierInterval = 0
    /\ elapsed = 0
    /\ initialized = TRUE
    /\ sessions = [s \in Players |-> NoSession]
    /\ rounds = <<[StoredRound(1) EXCEPT !.crashes = 1]>>
    /\ store = <<[roundNumber |-> 1, status |-> "crashed"]>>
    /\ task = [t \in TimerTasks \cup RequestTasks |->
                  IF t \in {"startup", "first"} THEN DoneTask ELSE IdleTask]
    /\ requestsLeft = MaxPairRequests
    /\ roundsLeft = MaxPairRounds
    /\ timers = <<"tick">>
    /\ intervals = {}
    /\ nextHandle = 1
    /\ crashSaves = 0
    /\ alive = TRUE
    /\ now = 0
    /\ referenced = [s \in Players |-> 0]
    /\ writeFailures = 0

NextPair == Lifecycle \/ RequestsPair

SpecPair == InitPair /\ [][NextPair]_vars

\* ------------------------------------------------------ failing requests
\* convertUsdToCrypto throws when the request names a currency that has no
\* price: placeBet throws before the push
placeBetPriceUnavailable(t) ==
    /\ Turn(t)
    /\ task[t].pc = "pb_conv"
    /\ task' = [task EXCEPT ![t] = Throw(task[t].sid, "noprice")]
    /\ UNCHANGED <<engineVars, sessions, rounds, store, budgetVars, timerVars, alive,
                   clockVars, faultVars>>

\* placeBet throws at `await this.currentRound.save()`, after the push and
\* the totals and before the debit
placeBetSaveThrows(t) ==
    /\ Turn(t)
    /\ task[t].pc = "pb_saved"
    /\ writeFailures < MaxWriteFailures
    /\ writeFailures' = writeFailures + 1
    /\ task' = [task EXCEPT ![t] = Throw(task[t].sid, "savefailed")]
    /\ UNCHANGED <<engineVars, sessions, rounds, store, budgetVars, timerVars, alive,
                   clockVars>>

\* cashOut throws at `await this.currentRound.save()`, after the bet was
\* marked cashed out and before the credit
cashOutSaveThrows(t) ==
    /\ Turn(t)
    /\ task[t].pc = "co_saved"
    /\ writeFailures < MaxWriteFailures
    /\ writeFailures' = writeFailures + 1
    /\ task' = [task EXCEPT ![t] = Throw(task[t].sid, "savefailed")]
    /\ UNCHANGED <<engineVars, sessions, rounds, store, budgetVars, timerVars, alive,
                   clockVars>>

RequestFailures ==
    \/ \E t \in Slots : placeBetPriceUnavailable(t)
    \/ \E t \in Slots : placeBetSaveThrows(t)
    \/ \E t \in Slots : cashOutSaveThrows(t)

\* a client sends its next request after the answer to the previous one
RequestsInTurn ==
    \/ \E t \in Slots, s \in SessionIds, a \in Amounts : Answered(s) /\ placeBet(t, s, a)
    \/ \E t \in Slots : placeBetPhase(t)
    \/ \E t \in Slots : placeBetSession(t)
    \/ \E t \in Slots, p \in Prices : placeBetConverted(t, p)
    \/ \E t \in Slots : placeBetSaved(t)
    \/ \E t \in Slots, s \in SessionIds : Answered(s) /\ cashOut(t, s)
    \/ \E t \in Slots, p \in Prices : cashOutConverted(t, p)
    \/ \E t \in Slots : cashOutSaved(t)
    \/ \E t \in Slots : Reply(t)

NextRequestFaults == Lifecycle \/ RequestsInTurn \/ RequestFailures

SpecRequestFaults == InitSteady /\ [][NextRequestFaults]_vars

\* -------------------------------------------------------------- claims
RoundIds == 1..Len(rounds)
BetIndexes(r) == 1..Len(rounds[r].activeBets)
BetsOf(s) == {b \in UNION {{<<r, i>> : i \in BetIndexes(r)} : r \in RoundIds} :
                 rounds[b[1]].activeBets[b[2]].sessionId = s}
CashedOutBetsOf(s) == {b \in BetsOf(s) : rounds[b[1]].activeBets[b[2]].cashedOut}

\* C1: a bet is paid out once: a session never has more winning cash-outs
\* (totalWins, each with its credit to the balance) than cashed-out bets, also
\* when two cashOut requests of the session are in flight together.
C1_PayoutOnce ==
    \A s \in SessionIds : sessions[s].totalWins <= Cardinality(CashedOutBetsOf(s))

\* C2: the balance of every session is at least 0 in every reachable state.
C2_BalanceNonNegative ==
    \A s \in SessionIds : sessions[s].exists => sessions[s].balance >= 0

\* C3: a round's bet list holds at most one bet per sessionId.
C3_OneBetPerSession ==
    \A r \in RoundIds : \A i, j \in BetIndexes(r) :
        i # j => rounds[r].activeBets[i].sessionId # rounds[r].activeBets[j].sessionId

\* the step in which placeBet request t runs its checks against the round
\* for which its session already has a recorded bet
SecondBetChecked(t) ==
    /\ \/ task[t].pc = "pb_session"
       \/ task[t].pc = "pb_check" /\ gameState \in {"betting", "waiting"}
    /\ currentRound # 0
    /\ sessions[task[t].sid].exists
    /\ sessions[task[t].sid].currentBet.roundId = currentRound
    /\ task'[t] # task[t]

\* C4: once a placeBet of a session has completed in a round, a later placeBet
\* of that session that is checked against the same round is rejected with the
\* duplicate-bet error and changes neither the sessions nor the rounds.
C4_SecondBetRejected ==
    [][\A t \in Slots :
          SecondBetChecked(t) =>
             /\ task'[t].pc = "reply"
             /\ task'[t].res = "duplicate"
             /\ sessions' = sessions
             /\ rounds' = rounds]_vars

\* C4 witness: a request of a session that holds one recorded bet, of the
\* current round, has been answered with the duplicate-bet error
C4_Witness ==
    \E t \in Slots :
        /\ task[t].pc = "reply"
        /\ task[t].res = "duplicate"
        /\ \E s \in SessionIds : /\ sessions[s].currentBet.roundId = currentRound
                                 /\ sessions[s].totalBets = 1
                                 /\ sessions[s].balance = InitialBalance - 600
                                 /\ Cardinality(BetsOf(s)) = 1

\* C5: no bet is appended to a round once the round has started
\* (status active or crashed).
C5_NoBetAfterStart ==
    [][\A r \in RoundIds :
          rounds[r].status \in {"active", "crashed"} =>
             Len(rounds'[r].activeBets) = Len(rounds[r].activeBets)]_vars

\* C6: no session balance is credited for a bet whose round has crashed.
C6_NoCreditAfterCrash ==
    [][\A t \in Slots :
          (task[t].pc = "co_saved" /\ task'[t].pc = "reply") =>
             rounds[task[t].bround].status # "crashed"]_vars

\* C7: the crash handler is invoked at most once for a round.
C7_CrashOnce == \A r \in RoundIds : rounds[r].crashes <= 1

\* C8: gameState moves only along waiting->betting, betting->active,
\* active->crashed, crashed->waiting, and a round in betting or active is
\* never discarded or replaced.
C8_Transitions ==
    [][/\ gameState' # gameState =>
             <<gameState, gameState'>> \in {<<"waiting", "betting">>,
                                            <<"betting", "active">>,
                                            <<"active", "crashed">>,
                                            <<"crashed", "waiting">>}
       /\ gameState \in {"betting", "active"} => currentRound' = currentRound]_vars

\* C9: at most one round of the store has status waiting, betting or active.
C9_OneOpenRound ==
    Cardinality({r \in 1..Len(store) :
                    store[r].status \in {"waiting", "betting", "active"}}) <= 1

\* C10: when the crash handling is over and the engine is back in waiting, no
\* session still has an active currentBet for a not-cashed-out bet of a
\* crashed round.
C10_LosersResolved ==
    (gameState = "waiting" /\ crashSaves = 0) =>
        \A s \in SessionIds : \A b \in BetsOf(s) :
            (/\ rounds[b[1]].status = "crashed"
             /\ ~rounds[b[1]].activeBets[b[2]].cashedOut
             /\ sessions[s].currentBet.roundId = b[1])
            => ~sessions[s].currentBet.isActive

BettingHasRound == gameState = "betting" => currentRound # 0

\* C11: for every round created, the stored hash is the digest of the stored
\* seed followed by the decimal string of the round's own roundNumber, and the
\* stored crashPoint is the crash-point function of that hash; recomputing
\* from the stored seed and roundNumber gives the stored hash and crashPoint.
C11_FairRoundStored ==
    \A r \in RoundIds :
        /\ rounds[r].hash = sha256(rounds[r].seed \o toString(rounds[r].roundNumber))
        /\ rounds[r].crashPoint = crashPointOfHash(rounds[r].hash)

\* two rounds have been created, one of them with a roundNumber above 1
C11_Witness ==
    /\ Len(rounds) >= 2
    /\ \E r \in RoundIds : rounds[r].roundNumber >= 2

\* C12: the crashPoint of a round is set at its creation and no later step
\* (startRound, placeBet, cashOut, updateMultiplier, crashGame, the resets or
\* a further createNewRound) changes it.
C12_CrashPointFixed ==
    [][\A r \in RoundIds : rounds'[r].crashPoint = rounds[r].crashPoint]_vars

\* a round has been bet on, started, cashed out of and crashed, and its
\* crashGame continuation has run
C12_Witness ==
    \E r \in RoundIds :
        /\ rounds[r].status = "crashed"
        /\ \E i \in BetIndexes(r) : rounds[r].activeBets[i].cashedOut
        /\ crashSaves = 0
        /\ gameState = "waiting"

hashIntOf(r) == parseInt16(SubSeq(rounds[r].hash, 1, HashIntDigits))

\* C13: for every value of the hash-derived integer, 0 and the largest one
\* included, the generated crashPoint lies between 1.01 and 120.00.
C13_CrashPointInRange ==
    \A r \in RoundIds : 101 <= rounds[r].crashPoint /\ rounds[r].crashPoint <= 12000

\* the new round's hash starts with zeros: hashInt = 0, the quotient is Infinity
C13_Witness ==
    /\ currentRound # 0
    /\ hashIntOf(currentRound) = 0
    /\ rounds[currentRound].crashPoint = 12000

\* the crash points the generator can produce at the reduced digest width
GeneratedCrashPoints ==
    {finalCrashPoint(rawCrashPoint(h)) : h \in 0..(HashIntSpace - 1)}

\* C14: the snapshot of getCurrentGameState carries the current round's
\* crashPoint when gameState is crashed and null in waiting, betting and
\* active; before the crash the snapshot is the same whatever crash point the
\* current round has.
C14_SnapshotHidesCrashPoint ==
    /\ gameState # "crashed" => getCurrentGameState.crashPoint = null
    /\ gameState = "crashed" /\ currentRound # 0 =>
           getCurrentGameState.crashPoint = rounds[currentRound].crashPoint
    /\ gameState # "crashed" /\ currentRound # 0 =>
           \A cp \in GeneratedCrashPoints :
               getCurrentGameStateOf(gameState, <<[rounds[currentRound] EXCEPT !.crashPoint = cp]>>,
                                     multiplier, sessions) = getCurrentGameState

\* an active round with a bet on it, its crash point not in the snapshot
C14_Witness ==
    /\ gameState = "active"
    /\ currentRound # 0
    /\ rounds[currentRound].activeBets # <<>>
    /\ multiplier > 100
    /\ getCurrentGameState.crashPoint = null

\* C15: the step of startRound that makes the phase active leaves the
\* multiplier at 1.0; from one state of an active phase to the next the
\* multiplier never decreases; and while gameState is active the multiplier is
\* below the current round's crashPoint.
C15_MultiplierMonotonic ==
    [][/\ gameState # "active" /\ gameState' = "active" => multiplier' = 100
       /\ gameState = "active" /\ gameState' = "active" => multiplier' >= multiplier
       /\ gameState' = "active" =>
              /\ currentRound' # 0
              /\ multiplier' < rounds'[currentRound'].crashPoint]_vars

\* the multiplier interval has fired in an active phase without reaching the
\* crash point
C15_Witness ==
    /\ gameState = "active"
    /\ elapsed > 0
    /\ multiplier > 100

RECURSIVE SumUsd(_)
SumUsd(bets) ==
    IF bets = <<>> THEN 0
    ELSE SumUsd(SubSeq(bets, 1, Len(bets) - 1)) + bets[Len(bets)].usdAmount

CashOutSteps ==
    \A t \in Slots :
        /\ (task[t].pc = "idle" /\ task'[t].pc = "co_conv") =>
               \E i \in BetIndexes(currentRound) :
                  LET bet == rounds[currentRound].activeBets[i]
                  IN /\ bet.sessionId = task'[t].sid
                     /\ ~bet.cashedOut
                     /\ task'[t].amt = bet.usdAmount
                     /\ task'[t].crypto = (bet.cryptoAmount * multiplier) \div 100
        /\ (task[t].pc = "co_conv" /\ task'[t].pc = "co_saved") =>
               /\ \E p \in Prices : task'[t].usd = (task[t].crypto * p) \div CryptoScale
               /\ task'[t].amt = task[t].amt
        /\ (task[t].pc = "co_saved" /\ task'[t].res = "cash_ok") =>
               LET s == task[t].sid
                   winUsd == task[t].usd
                   profit == winUsd - task[t].amt
               IN /\ sessions'[s].balance = sessions[s].balance + winUsd
                  /\ sessions'[s].totalWins = sessions[s].totalWins + 1
                  /\ sessions'[s].totalWinnings = sessions[s].totalWinnings + profit
                  /\ ~sessions'[s].currentBet.isActive
                  /\ task'[t].ret.winAmount = winUsd
                  /\ task'[t].ret.profit = profit
                  /\ task'[t].ret.newBalance = sessions'[s].balance

\* the scenario: balance 1000, a bet of 100 at price 50000, a cash-out at
\* multiplier 3.0 and price 50000; the balance after the bet, the win, the
\* profit and the balance after the cash-out as placeBet and cashOut compute
\* them
Scenario ==
    LET placed == convertUsdToCrypto(100, 50000)
        afterBet == InitialBalance - 100
        won == convertCryptoToUsd(winAmount(placed.cryptoAmount, 300), 50000)
    IN [cryptoAmount |-> placed.cryptoAmount,
        afterBet |-> afterBet,
        winAmount |-> won.usdAmount,
        profit |-> won.usdAmount - 100,
        afterCashOut |-> afterBet + won.usdAmount]

\* C18 (as stated): a successful cashOut credits the session with winUsd =
\* bet.cryptoAmount x multiplier x price at cash-out, reports profit =
\* winUsd - bet.usdAmount, adds 1 to totalWins and profit to totalWinnings
\* and sets currentBet.isActive to false; in the scenario the bet leaves
\* balance 900 and the cash-out gives winAmount 300, profit 200, balance 1100.
C18_AsStated ==
    [][/\ CashOutSteps
       /\ Scenario = [cryptoAmount |-> 2, afterBet |-> 900, winAmount |-> 300,
                      profit |-> 200, afterCashOut |-> 1100]]_vars

\* C18 (amended): the same effects of a successful cashOut; in the scenario
\* the bet leaves balance 900 and the cash-out gives winAmount 300, profit
\* 200 and balance 1200, the whole win being credited.
C18_CashOutEffects ==
    [][/\ CashOutSteps
       /\ Scenario = [cryptoAmount |-> 2, afterBet |-> 900, winAmount |-> 300,
                      profit |-> 200, afterCashOut |-> 1200]]_vars

\* a cashOut has returned a win above the stake and the session is credited
C18_Witness ==
    \E t \in Slots :
        /\ task[t].res = "cash_ok"
        /\ task[t].ret.profit > 0
        /\ task[t].ret.newBalance = sessions[task[t].sid].balance
        /\ sessions[task[t].sid].totalWins = 1
        /\ ~sessions[task[t].sid].currentBet.isActive

\* a cashOut request of slot t is handled in this step
CashOutArrives(t) == task[t].pc = "idle" /\ task'[t].pc \in {"reply", "co_conv"}

\* C19: in the active phase, a cashOut of a session that has no bet in the
\* current round, or whose bets in the current round are all cashed out, fails
\* with the not-found error and leaves the balance and the win counters of
\* every session and the bet lists of the rounds unchanged.
C19_CashOutNotFound ==
    [][\A t \in Slots :
         (/\ CashOutArrives(t)
          /\ gameState = "active"
          /\ currentRound # 0
          /\ \A i \in BetIndexes(currentRound) :
                 rounds[currentRound].activeBets[i].sessionId = task'[t].sid
                    => rounds[currentRound].activeBets[i].cashedOut)
         => /\ task'[t].res = "nobet"
            /\ rounds' = rounds
            /\ \A s \in SessionIds :
                   sessions[s].exists =>
                      /\ sessions'[s].balance = sessions[s].balance
                      /\ sessions'[s].totalWins = sessions[s].totalWins
                      /\ sessions'[s].totalWinnings = sessions[s].totalWinnings]_vars

\* a cashOut has failed with not-found in an active phase for a session whose
\* bet in the current round is cashed out while its currentBet is still active
C19_Witness ==
    \E t \in Slots :
        /\ task[t].res = "nobet"
        /\ gameState = "active"
        /\ currentRound # 0
        /\ sessions[task[t].sid].currentBet.isActive
        /\ \E i \in BetIndexes(currentRound) :
               /\ rounds[currentRound].activeBets[i].sessionId = task[t].sid
               /\ rounds[currentRound].activeBets[i].cashedOut

\* slot t handles a place-bet request
PlaceBetPcs == {"init_latest", "init_active", "init_saved", "pb_check", "cn_body",
                "cn_saved", "pb_session", "pb_conv", "pb_saved"}

\* C20: a bet request whose usdAmount is zero or negative is rejected before
\* any state mutation on the HTTP path and on the WebSocket path: while it is
\* handled no session balance changes and no bet is appended, and every bet of
\* every round has usdAmount > 0.
C20_InvalidBetRejected ==
    [][/\ \A t \in Slots :
             (task[t].pc \in PlaceBetPcs /\ task[t].amt <= 0 /\ task'[t] # task[t]) =>
                /\ \A s \in SessionIds :
                       sessions[s].exists => sessions'[s].balance = sessions[s].balance
                /\ \A r \in RoundIds : rounds'[r].activeBets = rounds[r].activeBets
       /\ \A r \in 1..Len(rounds') :
             \A i \in 1..Len(rounds'[r].activeBets) :
                rounds'[r].activeBets[i].usdAmount > 0]_vars

\* C21: the session cleanup never removes a session whose currentBet.isActive
\* is true, whatever its age: in every step, the cleanup's included, a
\* session with an active bet stays in the map as it is, unless its own
\* handlers write to it.
C21_ActiveSessionKept ==
    [][\A s \in SessionIds :
          sessions[s].exists /\ sessions[s].currentBet.isActive
             => /\ sessions'[s].exists
                /\ now' # now => sessions'[s] = sessions[s]]_vars

\* a session older than the retention window, with an active bet, is in the
\* map after the cleanup that would have removed it by age
C21_Witness ==
    \E s \in SessionIds :
        /\ sessions[s].exists
        /\ sessions[s].currentBet.isActive
        /\ sessions[s].joinedAt < now - Retention

\* C22: the session cleanup removes only sessions idle for longer than the
\* retention window: a session referenced (getSession by a bet, a cash-out,
\* a name change or an info request) within the last retention window is
\* not removed.
C22_OnlyIdleRemoved ==
    [][\A s \in SessionIds :
          sessions[s].exists /\ ~sessions'[s].exists
             => referenced[s] < now' - Retention]_vars

\* C23: getSession is idempotent lazy creation.  A get_session_info or
\* set_player_name message (getSession without / with a playerName) for an
\* unseen sessionId creates a session with balance 1000, zero counters and
\* no currentBet; for a sessionId already in the map it changes nothing
\* except that a supplied playerName replaces the stored name; the sessions
\* of the other ids are not touched.
C23_GetSessionIdempotent ==
    [][\A s \in SessionIds, name \in Names \cup {NoName} :
          setPlayerName(s, name) \/ (name = NoName /\ getSessionInfo(s))
             => /\ \A o \in SessionIds \ {s} : sessions'[o] = sessions[o]
                /\ IF sessions[s].exists
                   THEN sessions'[s] =
                           [sessions[s] EXCEPT
                               !.playerName = IF name # NoName THEN name ELSE @]
                   ELSE /\ sessions'[s].exists
                        /\ sessions'[s].balance = InitialBalance
                        /\ sessions'[s].totalBets = 0
                        /\ sessions'[s].totalWins = 0
                        /\ sessions'[s].totalWinnings = 0
                        /\ sessions'[s].currentBet = NoBet
                        /\ sessions'[s].playerName =
                              IF name # NoName THEN name ELSE DefaultName(s)
                        /\ getSession(sessions', s, NoName) = sessions']_vars

\* a session that has been given a name holds a debited balance and an
\* active bet
C23_Witness ==
    \E s \in SessionIds :
        /\ sessions[s].exists
        /\ sessions[s].playerName \in Names
        /\ sessions[s].balance < InitialBalance
        /\ sessions[s].totalBets = 1
        /\ sessions[s].currentBet.isActive

\* C24: every round created gets a roundNumber strictly greater than that of
\* every round created or persisted before it, so no two rounds share a
\* roundNumber (rounds and store list the rounds in the order of creation).
C24_RoundNumbersIncrease ==
    /\ \A i, j \in 1..Len(rounds) : i < j => rounds[i].roundNumber < rounds[j].roundNumber
    /\ \A i, j \in 1..Len(store) : i < j => store[i].roundNumber < store[j].roundNumber

\* C25: when initialize completes (initialized becomes true; no round has
\* been created by this process before that, so the store is the one found
\* at start-up), roundCounter is the highest persisted roundNumber plus 1
\* (1 for an empty store) and no round of the store is left in status
\* betting or active.
C25_InitializeRepairs ==
    [][~initialized /\ initialized'
          => /\ roundCounter' = LatestRoundNumber + 1
             /\ \A i \in 1..Len(store') :
                   store'[i].status \notin {"betting", "active"}]_vars

\* a round is running: the engine is active and its multiplier interval is armed
RoundRunning == gameState = "active" /\ multiplierInterval \in intervals

\* C26: after a save() has thrown during createNewRound, startRound or
\* crashGame the state machine is not stuck: a round is eventually running
\* (as long as the run may still create rounds).
C26_FailureRecovered ==
    [](writeFailures > 0 => <>(RoundRunning \/ roundsLeft = 0))

\* the run has used up its rounds: a createNewRound call waits for ever
Truncated == roundsLeft = 0 /\ \E t \in DOMAIN task : task[t].pc = "cn_body"

\* C27: with fair timers and no failing save() the lifecycle never stalls:
\* betting leads to active, active to crashed, crashed to waiting, and
\* waiting to the betting phase of a new round.
C27_LifecycleLive ==
    /\ [](gameState = "betting" => <>(gameState = "active" \/ Truncated))
    /\ [](gameState = "active" => <>(gameState = "crashed" \/ Truncated))
    /\ [](gameState = "crashed" => <>(gameState = "waiting" \/ Truncated))
    /\ [](gameState = "waiting" => <>(gameState = "betting" \/ Truncated))

\* C28: timers do not stack.  While the engine is crashed no multiplier
\* interval is armed and at most one reset timeout (the 2 s one of crashGame
\* or a 3 s one of the crash poll) is pending; once the engine is back in
\* waiting no reset timeout is pending.
C28_TimersDoNotStack ==
    /\ gameState = "crashed" => intervals = {}
    /\ gameState = "crashed" => Pending("reset") + Pending("guarded") <= 1
    /\ gameState = "waiting" => Pending("reset") + Pending("guarded") = 0

\* the requests of s whose save() has been called and not yet answered
Saving(s, pc) == Cardinality({t \in Slots : task[t].pc = pc /\ task[t].sid = s})

\* C29: when requests of different sessions interleave on a round no update
\* is lost.  Every request ends as a request that is alone can end; every
\* bet in a round's list is a bet its session has been debited for (or will
\* be, when its save is answered), every bet marked cashed out has been
\* credited (or will be), and the balance is the initial balance less the
\* stakes plus the amounts won.
C29_NoLostUpdate ==
    /\ \A t \in Slots : task[t].res # "parallelsave"
    /\ \A s \in Players :
          /\ Cardinality(BetsOf(s)) = sessions[s].totalBets + Saving(s, "pb_saved")
          /\ Cardinality(CashedOutBetsOf(s)) = sessions[s].totalWins + Saving(s, "co_saved")
          /\ sessions[s].exists =>
                sessions[s].balance =
                    LET stake == CHOOSE a \in Amounts : TRUE
                    IN InitialBalance + sessions[s].totalWinnings
                       - stake * (sessions[s].totalBets - sessions[s].totalWins)

\* C30: initialization takes effect at most once per process.  A step that
\* creates no round does not set roundCounter to the number of a round that
\* exists, and no step marks the live current round completed in the store.
C30_InitializeOnce ==
    [][/\ (Len(rounds') = Len(rounds) /\ roundCounter' # roundCounter)
             => \A i \in 1..Len(rounds) : rounds[i].roundNumber # roundCounter'
       /\ (currentRound # 0 /\ store[currentRound].status # "completed")
             => store'[currentRound].status # "completed"]_vars

\* a cashOut of s has been accepted and has not returned or thrown
CashOutInFlight(s) ==
    \E t \in Slots : task[t].sid = s /\ task[t].pc \in {"co_conv", "co_saved"}

\* C31: marking a bet cashed out and crediting its session are atomic.  In
\* every state in which no cashOut of a session is in flight, the bets of
\* the session that are marked cashed out are as many as the payouts the
\* session was credited, also after a save() that failed or a reset.
C31_MarkAndCreditAtomic ==
    \A s \in SessionIds :
        ~CashOutInFlight(s) =>
            Cardinality(CashedOutBetsOf(s)) = sessions[s].totalWins

\* C32: for every successful cashOut, the cashoutMultiplier recorded on the
\* bet and the multiplier returned to the caller are the multiplier the
\* credited payout was computed with, and that value is below the crash
\* point of the bet's round.
C32_OneMultiplier ==
    [][\A t \in Slots :
          (task[t].pc = "co_saved" /\ task'[t].res = "cash_ok") =>
              LET round == rounds[task[t].bround]
                  bet == round.activeBets[task[t].idx]
              IN /\ task'[t].ret.multiplier = bet.cashoutMultiplier
                 /\ task[t].crypto = winAmount(bet.cryptoAmount, bet.cashoutMultiplier)
                 /\ bet.cashoutMultiplier < round.crashPoint]_vars

\* C33: no stake is stranded.  Whenever no request is in flight and a
\* session has an active bet, the engine has a current round and the round
\* holds a bet of that session that is not cashed out.
C33_NoStrandedStake ==
    (\A t \in Slots : task[t].pc = "idle") =>
        \A s \in SessionIds :
            (sessions[s].exists /\ sessions[s].currentBet # NoBet
                                /\ sessions[s].currentBet.isActive) =>
                /\ currentRound # 0
                /\ findIndex(rounds[currentRound].activeBets, s) # 0

\* a placeBet of s has pushed its bet and has not returned or thrown
PlaceBetInFlight(s) ==
    \E t \in Slots : task[t].sid = s /\ task[t].pc = "pb_saved"

\* C34: a placeBet that fails after the phase check changes nothing.  When
\* no placeBet of a session is between its push and its debit, the bets of
\* the session in the rounds' lists are as many as the stakes the session
\* was debited; and the step in which a placeBet throws leaves the session
\* as it was.
C34_FailedBetChangesNothing ==
    /\ [](\A s \in SessionIds :
             ~PlaceBetInFlight(s) => Cardinality(BetsOf(s)) = sessions[s].totalBets)
    /\ [][\A t \in Slots :
             (task[t].pc \in {"pb_conv", "pb_saved"}
                 /\ task'[t].res \notin {"none", "bet_ok", "bet_ok_detached"})
                 => sessions' = sessions]_vars

====
